---- MODULE Spec2Model ----
(***************************************************************************)
(* The SINTA dashboard (app2.py) as a state machine: the two workbooks are *)
(* loaded and preprocessed (load_cluster_data, load_metrics_detail), and   *)
(* the handlers of the page compute the high-leverage table, the what-if   *)
(* simulation and the pairwise comparison from the loaded tables.          *)
(*                                                                         *)
(* Numbers.  value, total, delta_value and everything derived from them    *)
(* are counted in twentieths (the slider's step, 0.05): One = 20 stands    *)
(* for 1.0.  A missing number (NaN / None) is the empty tuple and a        *)
(* present one the 1-tuple of it; a missing label is the string "NaN".     *)
(* A quotient a / b * 100 is kept as the pair <<a * 100, b>>.              *)
(***************************************************************************)
EXTENDS Integers, Sequences, FiniteSets, TLC

VARIABLES
    cluster_file,           \* the workbook with sheets afiliasi, detail_kode
    metrics_file,           \* the workbook with sheet metrics_details
    pc,                     \* "start", "ready" (loaded), or the part of the page that
                            \* ran: "cat", "high", "sim", "md", "cmp"
    df_af,                  \* load_cluster_data: afiliasi + rank_overall + gap_to_top10
    df_detail,              \* load_cluster_data: detail_kode + category
    cat_pivot,              \* load_cluster_data: affiliation x category totals
    top10_threshold,        \* load_cluster_data: score at rank 10, or missing
    df_md,                  \* load_metrics_detail
    cluster_cache,          \* st.cache_data of load_cluster_data: [file, result] entries
    metrics_cache,          \* st.cache_data of load_metrics_detail
    cluster_parsed,         \* the workbooks load_cluster_data has read, in order
    metrics_parsed,         \* the workbooks load_metrics_detail has read, in order
    served,                 \* how the last run got the tables of each loader
    selected_affiliation,   \* sidebar selectbox
    cat_out,                \* what plot_category_breakdown showed (tab 2)
    md_out,                 \* what the metrics detail analysis showed (tab 4)
    top_k,                  \* get_high_leverage_metrics parameter
    df_high,                \* get_high_leverage_metrics result
    sim_categories,         \* multiselect of the simulation
    delta_value,            \* slider of the simulation
    sim_out,                \* what the "Hitung Simulasi" handler produced
    cmp_in,                 \* widgets of the compare tab at the click
    cmp_out                 \* what the "Bandingkan" handler produced

vars ==
    << cluster_file, metrics_file, pc, df_af, df_detail, cat_pivot,
       top10_threshold, df_md, cluster_cache, metrics_cache, cluster_parsed,
       metrics_parsed, served, selected_affiliation, cat_out, md_out, top_k,
       df_high, sim_categories, delta_value, sim_out, cmp_in, cmp_out >>

(***************************************************************************)
(* Constants of the program                                                *)
(***************************************************************************)

CATEGORY_LABELS ==
    ("Score in Publication" :> "Publication")
    @@ ("Score in HKI" :> "HKI")
    @@ ("Score in Research" :> "Research")
    @@ ("Score in Community Service" :> "Community Service")
    @@ ("Score in SDM" :> "SDM")
    @@ ("Score in Kelembagaan" :> "Kelembagaan")

CATEGORY_ORDER ==
    << "Publication", "Research", "Community Service", "HKI", "SDM", "Kelembagaan" >>

\* 1.0 in twentieths: the 1 of 1 - value and the upper clip of the simulation.
One == 20

\* The rank whose score is the Top 10 threshold.
Top10 == 10

\* The slider of the simulation: 0.0 .. 0.5 in steps of 0.05.
DeltaMax == 10

\* get_high_leverage_metrics' default top_k, the one main passes.
DefaultTopK == 30

\* The least value of the "show_n" slider of the compare tab.
ShowNMin == 10

\* The rows of the two tables of tab 4 (head(15)).
Top15 == 15

(***************************************************************************)
(* Missing values and small helpers                                        *)
(***************************************************************************)

NaN == << >>

NaNLabel == "NaN"

Some(x) == << x >>

IsNaN(x) == x = NaN

Val(x) == x[1]

Range(s) == { s[i] : i \in DOMAIN s }

Abs(x) == IF x < 0 THEN -x ELSE x

Min(a, b) == IF a <= b THEN a ELSE b

Max(a, b) == IF a >= b THEN a ELSE b

\* The float x / 0 for x # 0: plus or minus infinity, kept as << sign, 0 >>.
Inf(x) == << IF x > 0 THEN 1 ELSE -1, 0 >>

\* The unguarded float division n / d of pandas, which never raises: the
\* pair << n, d >>, or for d = 0 NaN (0 / 0) or an infinity.
Quotient(n, d) ==
    IF d # 0 THEN << n, d >>
    ELSE IF n = 0 THEN NaN
    ELSE Inf(n)

RECURSIVE SumOver(_, _)
\* The sum of f[x] over the finite set S.
SumOver(f, S) ==
    IF S = {} THEN 0
    ELSE LET x == CHOOSE y \in S : TRUE
         IN f[x] + SumOver(f, S \ {x})

\* The rows of s at the positions idx (a sequence of positions), in that order.
Take(s, idx) == [ k \in DOMAIN idx |-> s[idx[k]] ]

\* DataFrame.head(n)
Head_n(s, n) == SubSeq(s, 1, Min(n, Len(s)))

RECURSIVE Flatten(_)
\* The concatenation of a sequence of sequences.
Flatten(ss) ==
    IF ss = << >> THEN << >>
    ELSE Head(ss) \o Flatten(Tail(ss))

(***************************************************************************)
(* Sorting.  sort_values is called without kind=, i.e. with pandas'        *)
(* default "quicksort", which is not a stable sort: rows with equal keys   *)
(* may come out in any order.  SortDescending(keys) is the set of the      *)
(* orders (sequences of positions) the call may return.                    *)
(***************************************************************************)

RECURSIVE OrdersOf(_, _)
OrdersOf(keys, S) ==
    IF S = {} THEN { << >> }
    ELSE LET top == { i \in S : \A j \in S : keys[i] >= keys[j] }
         IN UNION { { << i >> \o r : r \in OrdersOf(keys, S \ {i}) } : i \in top }

SortDescending(keys) == OrdersOf(keys, DOMAIN keys)

(***************************************************************************)
(* load_cluster_data                                                       *)
(***************************************************************************)

\* Series.map(CATEGORY_LABELS): a key the dict lacks maps to NaN.
MapCategory(raw) ==
    IF raw \in DOMAIN CATEGORY_LABELS THEN CATEGORY_LABELS[raw] ELSE NaNLabel

\* df_detail["category"] = df_detail["kategori_score"].map(CATEGORY_LABELS)
WithCategory(detail) ==
    [ i \in DOMAIN detail |->
        [ nama_afiliasi |-> detail[i].nama_afiliasi,
          kode |-> detail[i].kode,
          kategori_score |-> detail[i].kategori_score,
          weight |-> detail[i].weight,
          value |-> detail[i].value,
          total |-> detail[i].total,
          category |-> MapCategory(detail[i].kategori_score) ] ]

\* GroupTotals keeping the rows whose category is missing (dropna=False).
GroupTotalsKeepNaN(rows) ==
    LET keys == { << rows[i].nama_afiliasi, rows[i].category >> : i \in DOMAIN rows }
    IN [ k \in keys |->
           SumOver([ i \in DOMAIN rows |-> rows[i].total ],
                   { i \in DOMAIN rows :
                       << rows[i].nama_afiliasi, rows[i].category >> = k }) ]

\* groupby([by1, by2])["total"].sum(): one entry per key pair that occurs;
\* rows with a missing key are dropped (groupby's dropna=True).
GroupTotals(rows) ==
    LET kept == { i \in DOMAIN rows : rows[i].category # NaNLabel }
        keys == { << rows[i].nama_afiliasi, rows[i].category >> : i \in kept }
    IN [ k \in keys |->
           SumOver([ i \in kept |-> rows[i].total ],
                   { i \in kept : << rows[i].nama_afiliasi, rows[i].category >> = k }) ]

\* Series.unstack(fill_value): the first key level becomes the index, the
\* second the columns; a pair that is no key of the series holds fill_value.
Unstack(grouped, fill_value) ==
    LET index == { k[1] : k \in DOMAIN grouped }
        columns == { k[2] : k \in DOMAIN grouped }
    IN [ index |-> index,
         columns |-> columns,
         cell |-> [ k \in index \X columns |->
                      IF k \in DOMAIN grouped THEN grouped[k] ELSE fill_value ] ]

CatPivot(detail) == Unstack(GroupTotals(detail), 0)

\* AfRanked with the rank left 0-based (the "+ 1" forgotten).
AfRankedZeroBased(af, order) ==
    [ k \in DOMAIN order |->
        [ nama_afiliasi |-> af[order[k]].nama_afiliasi,
          sinta_score_overall |-> af[order[k]].sinta_score_overall,
          rank_overall |-> k - 1 ] ]

\* af_ranked: the rows of afiliasi in the order the sort returned, with
\* rank_overall = index + 1 after reset_index(drop=True).
AfRanked(af, order) ==
    [ k \in DOMAIN order |->
        [ nama_afiliasi |-> af[order[k]].nama_afiliasi,
          sinta_score_overall |-> af[order[k]].sinta_score_overall,
          rank_overall |-> (k - 1) + 1 ] ]

\* df_af.merge(af_ranked[["nama_afiliasi", "rank_overall"]], on="nama_afiliasi",
\* how="left"): every left row, in order, once per right row of the same name.
MergeRank(af, ranked) ==
    Flatten([ i \in DOMAIN af |->
        LET hits == SelectSeq(ranked,
                        LAMBDA r : r.nama_afiliasi = af[i].nama_afiliasi)
        IN [ j \in DOMAIN hits |->
               [ nama_afiliasi |-> af[i].nama_afiliasi,
                 sinta_score_overall |-> af[i].sinta_score_overall,
                 rank_overall |-> hits[j].rank_overall ] ] ])

\* Top10Threshold reading the row one above (loc[8]).
Top10ThresholdRank9(ranked) ==
    IF Len(ranked) >= Top10
    THEN Some(ranked[(Top10 - 2) + 1].sinta_score_overall)
    ELSE NaN

\* top10_threshold = af_ranked.loc[9, "sinta_score_overall"] when there are
\* at least 10 rows, else None.
Top10Threshold(ranked) ==
    IF Len(ranked) >= Top10
    THEN Some(ranked[(Top10 - 1) + 1].sinta_score_overall)
    ELSE NaN

\* GapToTop10 with 0 instead of NaN when there is no threshold.
GapToTop10ZeroWithoutThreshold(row, threshold) ==
    IF IsNaN(threshold) THEN Some(0)
    ELSE IF row.rank_overall <= Top10 THEN Some(0)
    ELSE Some(Val(threshold) - row.sinta_score_overall)

\* gap_to_top10 = np.where(rank_overall <= 10, 0, threshold - score), or NaN
\* for every row when there is no threshold.
GapToTop10(row, threshold) ==
    IF IsNaN(threshold) THEN NaN
    ELSE IF row.rank_overall <= Top10 THEN Some(0)
    ELSE Some(Val(threshold) - row.sinta_score_overall)

WithGap(merged, threshold) ==
    [ i \in DOMAIN merged |->
        [ nama_afiliasi |-> merged[i].nama_afiliasi,
          sinta_score_overall |-> merged[i].sinta_score_overall,
          rank_overall |-> merged[i].rank_overall,
          gap_to_top10 |-> GapToTop10(merged[i], threshold) ] ]

\* Every result load_cluster_data may return for the workbook xls: one per
\* order the sort of afiliasi may return.
load_cluster_data(xls) ==
    LET af == xls.afiliasi
        detail == WithCategory(xls.detail_kode)
        scores == [ i \in DOMAIN af |-> af[i].sinta_score_overall ]
    IN { LET ranked == AfRanked(af, order)
             threshold == Top10Threshold(ranked)
         IN [ df_af |-> WithGap(MergeRank(af, ranked), threshold),
              df_detail |-> detail,
              cat_pivot |-> CatPivot(detail),
              top10_threshold |-> threshold ]
         : order \in SortDescending(scores) }

(***************************************************************************)
(* load_metrics_detail                                                     *)
(***************************************************************************)

\* A workbook is the sequence of its sheets, [name, rows]; the sheet
\* "metrics_details" is used when there is one, else the first sheet.
load_metrics_detail(xls) ==
    IF \E i \in DOMAIN xls : xls[i].name = "metrics_details"
    THEN xls[CHOOSE i \in DOMAIN xls : xls[i].name = "metrics_details"].rows
    ELSE xls[1].rows

(***************************************************************************)
(* st.cache_data: both loaders are memoized on their argument, the file    *)
(***************************************************************************)

\* CacheHit for a function that is not decorated: never an entry.
CacheHitNever(cache, file) == FALSE

\* The cache holds an entry stored for the file.
CacheHit(cache, file) == \E i \in DOMAIN cache : cache[i].file = file

\* The result stored for the file.
CacheGet(cache, file) ==
    cache[CHOOSE i \in DOMAIN cache : cache[i].file = file].result

(***************************************************************************)
(* plot_category_breakdown                                                 *)
(***************************************************************************)

\* The table of tab 2: the affiliation's row of cat_pivot, one row per
\* column, with share_percent = total / total.sum() * 100, in the order of
\* CATEGORY_ORDER; only a warning when cat_pivot has no row for it.
plot_category_breakdown(pivot, affiliation) ==
    IF affiliation \notin pivot.index
    THEN [ status |-> "warning", df_cat |-> << >> ]
    ELSE LET total == [ c \in pivot.columns |-> pivot.cell[<< affiliation, c >>] ]
             sum == SumOver(total, pivot.columns)
             present == SelectSeq(CATEGORY_ORDER, LAMBDA c : c \in pivot.columns)
         IN [ status |-> "done",
              df_cat |-> [ k \in DOMAIN present |->
                  [ category |-> present[k],
                    total |-> total[present[k]],
                    share_percent |-> Quotient(total[present[k]] * 100, sum) ] ] ]

(***************************************************************************)
(* get_high_leverage_metrics                                               *)
(***************************************************************************)

\* PotentialGain clamped at 0 for a value above 1.
PotentialGainClamped(weight, value) ==
    IF value > One THEN 0 ELSE weight * (One - value)

\* potential_gain = weight * (1 - value)
PotentialGain(weight, value) == weight * (One - value)

WithPotentialGain(rows) ==
    [ i \in DOMAIN rows |->
        [ nama_afiliasi |-> rows[i].nama_afiliasi,
          kode |-> rows[i].kode,
          kategori_score |-> rows[i].kategori_score,
          weight |-> rows[i].weight,
          value |-> rows[i].value,
          total |-> rows[i].total,
          category |-> MapCategory(rows[i].kategori_score),
          potential_gain |-> PotentialGain(rows[i].weight, rows[i].value) ] ]

\* df_detail[df_detail["nama_afiliasi"] == selected_affiliation]
RowsOf(detail, affiliation) ==
    SelectSeq(detail, LAMBDA r : r.nama_afiliasi = affiliation)

\* Every table get_high_leverage_metrics may return: one per order the sort
\* by potential_gain may return, cut to the first k rows.
get_high_leverage_metrics(detail, affiliation, k) ==
    LET df == RowsOf(detail, affiliation)
    IN IF df = << >> THEN { << >> }
       ELSE LET gain == WithPotentialGain(df)
                keys == [ i \in DOMAIN gain |-> gain[i].potential_gain ]
            IN { Head_n(Take(gain, order), k) : order \in SortDescending(keys) }

(***************************************************************************)
(* The simulation ("Hitung Simulasi", main)                                *)
(***************************************************************************)

\* ValueSim without the clip.
ValueSimNoClip(row, categories, delta) ==
    IF row.category \in categories THEN row.value + delta ELSE row.value

\* (value_sim + delta_value).clip(upper=1.0) on the rows of the mask
ValueSim(row, categories, delta) ==
    IF row.category \in categories
    THEN Min(row.value + delta, One)
    ELSE row.value

\* df_sim: the affiliation's rows with value_sim and total_sim
DfSim(rows, categories, delta) ==
    [ i \in DOMAIN rows |->
        [ kode |-> rows[i].kode,
          category |-> rows[i].category,
          weight |-> rows[i].weight,
          value |-> rows[i].value,
          total |-> rows[i].total,
          value_sim |-> ValueSim(rows[i], categories, delta),
          total_sim |-> rows[i].weight * ValueSim(rows[i], categories, delta) ] ]

\* groupby("category")[col].sum(): one entry per category that occurs,
\* rows with a missing category dropped.
GroupByCategory(rows, col) ==
    LET kept == { i \in DOMAIN rows : rows[i].category # NaNLabel }
        keys == { rows[i].category : i \in kept }
    IN [ c \in keys |->
           SumOver([ i \in kept |-> rows[i][col] ],
                   { i \in kept : rows[i].category = c }) ]

\* change_percent = np.where(original_total > 0, change / original_total * 100, nan)
ChangePercent(original, change) ==
    IF original > 0 THEN << change * 100, original >> ELSE NaN

\* DfCatSim with the difference taken the other way round.
DfCatSimOriginalMinusSimulated(original_cat, sim_cat) ==
    LET cats == DOMAIN original_cat \cup DOMAIN sim_cat
        row(c) ==
            LET o == IF c \in DOMAIN original_cat THEN original_cat[c] ELSE 0
                s == IF c \in DOMAIN sim_cat THEN sim_cat[c] ELSE 0
            IN [ category |-> c,
                 original_total |-> o,
                 simulated_total |-> s,
                 change |-> o - s,
                 change_percent |-> ChangePercent(o, o - s) ]
        present == SelectSeq(CATEGORY_ORDER, LAMBDA c : c \in cats)
    IN [ k \in DOMAIN present |-> row(present[k]) ]

\* pd.concat([original_cat, sim_cat], axis=1).fillna(0), change and
\* change_percent, sorted by the position of the category in CATEGORY_ORDER.
DfCatSim(original_cat, sim_cat) ==
    LET cats == DOMAIN original_cat \cup DOMAIN sim_cat
        row(c) ==
            LET o == IF c \in DOMAIN original_cat THEN original_cat[c] ELSE 0
                s == IF c \in DOMAIN sim_cat THEN sim_cat[c] ELSE 0
            IN [ category |-> c,
                 original_total |-> o,
                 simulated_total |-> s,
                 change |-> s - o,
                 change_percent |-> ChangePercent(o, s - o) ]
        present == SelectSeq(CATEGORY_ORDER, LAMBDA c : c \in cats)
    IN [ k \in DOMAIN present |-> row(present[k]) ]

\* Simulation without the test of the selection ("if not sim_categories").
SimulationNoWarning(detail, pivot, affiliation, categories, delta) ==
    IF affiliation \notin pivot.index
    THEN [ status |-> "info", df_sim |-> << >>, df_cat_sim |-> << >> ]
    ELSE LET df_aff_detail == RowsOf(detail, affiliation)
             sim == DfSim(df_aff_detail, categories, delta)
         IN [ status |-> "done",
              df_sim |-> sim,
              df_cat_sim |-> DfCatSim(GroupByCategory(df_aff_detail, "total"),
                                      GroupByCategory(sim, "total_sim")) ]

\* What a click on "Hitung Simulasi" produces.
Simulation(detail, pivot, affiliation, categories, delta) ==
    IF affiliation \notin pivot.index
    THEN [ status |-> "info", df_sim |-> << >>, df_cat_sim |-> << >> ]
    ELSE IF categories = {}
    THEN [ status |-> "warning", df_sim |-> << >>, df_cat_sim |-> << >> ]
    ELSE LET df_aff_detail == RowsOf(detail, affiliation)
             sim == DfSim(df_aff_detail, categories, delta)
         IN [ status |-> "done",
              df_sim |-> sim,
              df_cat_sim |-> DfCatSim(GroupByCategory(df_aff_detail, "total"),
                                      GroupByCategory(sim, "total_sim")) ]

(***************************************************************************)
(* compare_universities_df                                                 *)
(***************************************************************************)

\* df_md[df_md["affiliation_name"] == aff]
MdRowsOf(md, aff) == SelectSeq(md, LAMBDA r : r.affiliation_name = aff)

RECURSIVE Ascending(_)
\* The numbers of the set S in ascending order: the key order of an outer merge.
Ascending(S) ==
    IF S = {} THEN << >>
    ELSE LET m == CHOOSE x \in S : \A y \in S : x <= y
         IN << m >> \o Ascending(S \ {m})

\* One row of pd.merge(base, comp, on="code", how="outer"); a side that has
\* no row for the code is given as << >> and leaves its columns missing.
MergedRow(code, left, right) ==
    [ code |-> code,
      name |-> IF left = << >> THEN NaNLabel ELSE left[1].name,
      category |-> IF left = << >> THEN NaNLabel ELSE left[1].category,
      score_selected |-> IF left = << >> THEN NaN ELSE Some(left[1].score_selected),
      category_b |-> IF right = << >> THEN NaNLabel ELSE right[1].category_b,
      score_compare |-> IF right = << >> THEN NaN ELSE Some(right[1].score_compare) ]

\* pd.merge(base, comp, on="code", how="outer"): the codes of either side in
\* ascending order; for a code, every left row of it with every right row.
OuterMerge(base, comp) ==
    LET codes == Ascending({ base[i].code : i \in DOMAIN base }
                           \cup { comp[j].code : j \in DOMAIN comp })
        rowsOf(c) ==
            LET L == SelectSeq(base, LAMBDA r : r.code = c)
                R == SelectSeq(comp, LAMBDA r : r.code = c)
            IN IF R = << >> THEN [ i \in DOMAIN L |-> MergedRow(c, << L[i] >>, << >>) ]
               ELSE IF L = << >> THEN [ j \in DOMAIN R |-> MergedRow(c, << >>, << R[j] >>) ]
               ELSE Flatten([ i \in DOMAIN L |->
                        [ j \in DOMAIN R |-> MergedRow(c, << L[i] >>, << R[j] >>) ] ])
    IN Flatten([ n \in DOMAIN codes |-> rowsOf(codes[n]) ])

\* df["code"].map(name_map) with name_map = df2.set_index("code")["name"]
\* raises InvalidIndexError when a code occurs twice in df2.
NameMapRaises(df2) ==
    \E i, j \in DOMAIN df2 : i # j /\ df2[i].code = df2[j].code

\* df["name"].fillna(df["code"].map(name_map))
FillName(row, df2) ==
    IF row.name # NaNLabel THEN row.name
    ELSE IF \E j \in DOMAIN df2 : df2[j].code = row.code
    THEN df2[CHOOSE j \in DOMAIN df2 : df2[j].code = row.code].name
    ELSE NaNLabel

\* df["category"].fillna(df["category_b"])
FillCategory(row) ==
    IF row.category # NaNLabel THEN row.category ELSE row.category_b

\* fillna(0)
FillZero(x) == IF IsNaN(x) THEN 0 ELSE Val(x)

\* DiffPct giving 0 % instead of NaN for a zero score_compare.
DiffPctZero(diff_abs, score_compare) ==
    IF score_compare # 0 THEN << diff_abs * 100, score_compare >> ELSE << 0, 1 >>

\* diff_pct = np.where(score_compare != 0, diff_abs / score_compare * 100, nan)
DiffPct(diff_abs, score_compare) ==
    IF score_compare # 0 THEN << diff_abs * 100, score_compare >> ELSE NaN

\* The row of the result for one merged row.
CompareRow(row, df2) ==
    LET sel == FillZero(row.score_selected)
        cmp == FillZero(row.score_compare)
    IN [ code |-> row.code,
         name |-> FillName(row, df2),
         category |-> FillCategory(row),
         score_selected |-> sel,
         score_compare |-> cmp,
         diff_abs |-> sel - cmp,
         diff_pct |-> DiffPct(sel - cmp, cmp) ]

\* [raised |-> TRUE] when the call raises, else the table it returns.
compare_universities_df(md, aff1, aff2, metric_col) ==
    LET df1 == MdRowsOf(md, aff1)
        df2 == MdRowsOf(md, aff2)
        base == [ i \in DOMAIN df1 |->
                    [ code |-> df1[i].code, name |-> df1[i].name,
                      category |-> df1[i].area,
                      score_selected |-> df1[i][metric_col] ] ]
        comp == [ j \in DOMAIN df2 |->
                    [ code |-> df2[j].code, category_b |-> df2[j].area,
                      score_compare |-> df2[j][metric_col] ] ]
        merged == OuterMerge(base, comp)
    IN IF NameMapRaises(df2)
       THEN [ raised |-> TRUE, df |-> << >> ]
       ELSE [ raised |-> FALSE,
              df |-> [ n \in DOMAIN merged |-> CompareRow(merged[n], df2) ] ]

(***************************************************************************)
(* The comparison ("Bandingkan", main)                                     *)
(***************************************************************************)

\* str.upper() on the affiliation names of the workbooks.
Upper(name) ==
    CASE name = "Alpha" -> "ALPHA"
      [] name = "Beta" -> "BETA"
      [] name = "Gamma" -> "GAMMA"
      [] name = "Delta" -> "DELTA"
      [] OTHER -> name

\* (df_comp["diff_abs"] > 0).sum() and its two siblings
Summary(rows) ==
    [ better |-> Cardinality({ i \in DOMAIN rows : rows[i].diff_abs > 0 }),
      worse |-> Cardinality({ i \in DOMAIN rows : rows[i].diff_abs < 0 }),
      equal |-> Cardinality({ i \in DOMAIN rows : rows[i].diff_abs = 0 }) ]

\* Every outcome of a click on "Bandingkan": the category filter, the sort by
\* |diff_abs| (one outcome per order it may return), head(show_n), the summary.
Comparison(md, w) ==
    LET res == compare_universities_df(md, Upper(w.aff_a), Upper(w.aff_b), w.metric_col)
        filtered == IF w.cat_filter # {}
                    THEN SelectSeq(res.df, LAMBDA r : r.category \in w.cat_filter)
                    ELSE res.df
        keys == [ i \in DOMAIN filtered |-> Abs(filtered[i].diff_abs) ]
    IN IF res.raised
       THEN { [ status |-> "error", returned |-> << >>, df_comp |-> << >>,
                summary |-> Summary(<< >>) ] }
       ELSE { [ status |-> "done",
                returned |-> res.df,
                df_comp |-> Head_n(Take(filtered, order), w.show_n),
                summary |-> Summary(Head_n(Take(filtered, order), w.show_n)) ]
              : order \in SortDescending(keys) }

(***************************************************************************)
(* The metrics detail analysis (main, tab 4)                               *)
(***************************************************************************)

\* code_cat_map: the distinct (kode, kategori_score) pairs of df_detail in
\* the order of their first rows, with the mapped category.
CodeCatMap(detail) ==
    LET firsts == { i \in DOMAIN detail :
                      \A j \in 1..(i - 1) :
                          \/ detail[j].kode # detail[i].kode
                          \/ detail[j].kategori_score # detail[i].kategori_score }
        at == [ i \in DOMAIN detail |-> Cardinality({ j \in firsts : j <= i }) ]
    IN [ k \in 1..Cardinality(firsts) |->
           LET i == CHOOSE i \in firsts : at[i] = k
           IN [ code |-> detail[i].kode,
                category |-> MapCategory(detail[i].kategori_score) ] ]

\* df_md_aff.merge(code_cat_map[["code", "category"]], on="code", how="left"):
\* every row once per entry of its code, or once without a category.
MergeCategory(rows, map) ==
    Flatten([ i \in DOMAIN rows |->
        LET hits == SelectSeq(map, LAMBDA e : e.code = rows[i].code)
        IN IF hits = << >>
           THEN << [ row |-> rows[i], category |-> NaNLabel ] >>
           ELSE [ j \in DOMAIN hits |->
                    [ row |-> rows[i], category |-> hits[j].category ] ] ])

\* recent_ratio of the affiliation: total_3yr / total_overall * 100 if
\* total_overall > 0 else np.nan
RecentRatio(total_3yr, total_overall) ==
    IF total_overall > 0 THEN << total_3yr * 100, total_overall >> ELSE NaN

\* overall_share = sinta_v3_overall_total / max(sum of the column, 1)
OverallShare(total, sum) == << total, Max(sum, 1) >>

\* recent_ratio of a row: np.where(overall_total > 0, 3yr / overall, nan)
RowRecentRatio(total_3yr, total_overall) ==
    IF total_overall > 0 THEN << total_3yr, total_overall >> ELSE NaN

\* df_md_aff with the columns overall_share and recent_ratio.
DfMdAff(merged) ==
    LET sum == SumOver([ i \in DOMAIN merged |-> merged[i].row.sinta_v3_overall_total ],
                       DOMAIN merged)
    IN [ i \in DOMAIN merged |->
           [ code |-> merged[i].row.code,
             category |-> merged[i].category,
             sinta_v3_overall_total |-> merged[i].row.sinta_v3_overall_total,
             sinta_v3_3yr_total |-> merged[i].row.sinta_v3_3yr_total,
             overall_share |-> OverallShare(merged[i].row.sinta_v3_overall_total, sum),
             recent_ratio |-> RowRecentRatio(merged[i].row.sinta_v3_3yr_total,
                                             merged[i].row.sinta_v3_overall_total) ] ]

\* The orders sort_values("recent_ratio", ascending=False) may return: the
\* rows with a ratio by descending ratio (the ratios n / d, d > 0, compared
\* as n x the product of the other rows' d), then those without, in order.
RecentOrders(rows) ==
    LET has == { i \in DOMAIN rows : ~IsNaN(rows[i].recent_ratio) }
        RECURSIVE Prod(_)
        Prod(S) == IF S = {} THEN 1
                   ELSE LET x == CHOOSE y \in S : TRUE
                        IN rows[x].recent_ratio[2] * Prod(S \ {x})
        keys == [ i \in has |-> rows[i].recent_ratio[1] * Prod(has \ {i}) ]
        none == Ascending(DOMAIN rows \ has)
    IN { order \o none : order \in OrdersOf(keys, has) }

\* Every outcome of tab 4 for the selected affiliation: the two sums, the
\* ratio of the sums, df_md_aff, and the two tables of 15 rows (one outcome
\* per order their sorts may return).
MetricsAnalysis(md, detail, affiliation) ==
    LET rows == MdRowsOf(md, affiliation)
        df_md_aff == DfMdAff(MergeCategory(rows, CodeCatMap(detail)))
        total_overall == SumOver([ i \in DOMAIN df_md_aff |->
                                     df_md_aff[i].sinta_v3_overall_total ],
                                 DOMAIN df_md_aff)
        total_3yr == SumOver([ i \in DOMAIN df_md_aff |->
                                 df_md_aff[i].sinta_v3_3yr_total ],
                             DOMAIN df_md_aff)
        recent == SelectSeq(df_md_aff, LAMBDA r : r.sinta_v3_3yr_total > 0)
    IN IF rows = << >>
       THEN { [ status |-> "warning", total_overall |-> 0, total_3yr |-> 0,
                recent_ratio |-> NaN, df_md_aff |-> << >>,
                top_overall |-> << >>, recent_top |-> << >> ] }
       ELSE { [ status |-> "done",
                total_overall |-> total_overall,
                total_3yr |-> total_3yr,
                recent_ratio |-> RecentRatio(total_3yr, total_overall),
                df_md_aff |-> df_md_aff,
                top_overall |-> Head_n(Take(df_md_aff, o1), Top15),
                recent_top |-> Head_n(Take(recent, o2), Top15) ]
              : o1 \in SortDescending([ i \in DOMAIN df_md_aff |->
                                           df_md_aff[i].sinta_v3_overall_total ]),
                o2 \in RecentOrders(recent) }

(***************************************************************************)
(* The workbooks the runs are checked on                                   *)
(***************************************************************************)

\* Longest afiliasi sheet of the small tables.
MaxAf == 3

\* Longest detail_kode sheet.
MaxDetail == 2

\* Longest metrics_details sheet.
MaxMd == 2

\* Most rows added to the nine fixed ones of a Top 10 table.
MaxTail == 2

\* Most rows added to the ten fixed ones of a long metrics_details sheet.
MaxMdTail == 1

\* The sequences over S of length lo .. hi.
SeqsOf(S, lo, hi) == UNION { [ 1..n -> S ] : n \in lo..hi }

AfRow(name, score) == [ nama_afiliasi |-> name, sinta_score_overall |-> score ]

\* Small afiliasi sheets; a name may occur twice.
AfTables ==
    SeqsOf([ nama_afiliasi : {"Alpha", "Beta", "Gamma"},
             sinta_score_overall : {90, 100} ], 1, MaxAf)

AfFixed == << AfRow("Alpha", 100), AfRow("Beta", 90) >>

AfOne == << AfRow("Alpha", 100) >>

\* Nine rows of distinct names, unsorted, two of them with the same score.
AfBase9 ==
    << AfRow("U1", 70), AfRow("U2", 95), AfRow("U3", 60), AfRow("U4", 85),
       AfRow("U5", 75), AfRow("U6", 100), AfRow("U7", 65), AfRow("U8", 85),
       AfRow("U9", 80) >>

TailNames == << "T1", "T2", "T3", "T4", "T5" >>

\* afiliasi sheets of 10 rows and more, with unique names: 1 .. MaxTail rows
\* below, level with or above the lowest of the nine, then the nine.
Top10Tables ==
    { [ i \in 1..Len(t) |-> AfRow(TailNames[i], t[i]) ] \o AfBase9
      : t \in SeqsOf({50, 60, 88}, 1, MaxTail) }

DetailRow(name, kode, raw, weight, value, total) ==
    [ nama_afiliasi |-> name, kode |-> kode, kategori_score |-> raw,
      weight |-> weight, value |-> value, total |-> total ]

\* (weight, value, total): 2 x 0.3 = 0.6; a value above 1; a total (0) that
\* is not weight x value; a value below 0; 1 x 0.9 = 0.9.
DetailWVT ==
    { << 2, 6, 12 >>, << 1, 24, 24 >>, << 3, 18, 0 >>, << 1, -2, -2 >>,
      << 1, 18, 18 >> }

\* detail_kode sheets of at least one row: the kode of a row is its position;
\* the raw category is one of two known labels or an unknown one.
DetailTables ==
    { [ i \in 1..Len(t) |->
          DetailRow(t[i][1], i, t[i][2], t[i][3][1], t[i][3][2], t[i][3][3]) ]
      : t \in SeqsOf({"Alpha", "Beta"}
                     \X {"Score in Publication", "Score in HKI", "Score in Lainnya"}
                     \X DetailWVT, 1, MaxDetail) }

DetailFixed ==
    << DetailRow("Alpha", 1, "Score in Publication", 2, 6, 12),
       DetailRow("Alpha", 2, "Score in HKI", 1, 18, 18),
       DetailRow("Beta", 3, "Score in Lainnya", 1, 24, 24) >>

\* The indicator names of the metrics sheet, by affiliation and code.
IndicatorName(aff, code) ==
    CASE aff = "DELTA" -> "Artikel (delta)"
      [] aff = "ALPHA" /\ code = 1 -> "Artikel (alpha)"
      [] aff = "ALPHA" -> "Paten (alpha)"
      [] code = 1 -> "Artikel (beta)"
      [] OTHER -> "Paten (beta)"

MdRow(aff, code, area, scores) ==
    [ affiliation_name |-> aff, code |-> code, name |-> IndicatorName(aff, code),
      area |-> area,
      sinta_v3_overall_total |-> scores[1],
      sinta_v3_3yr_total |-> scores[2],
      sinta_v3_overall_value |-> scores[3] ]

\* (overall total, 3-year total, overall value)
MdScores == { << 0, 0, 0 >>, << 5, 3, 10 >>, << 3, 5, 20 >> }

\* metrics_details sheets: a code may occur on several rows of an affiliation.
MdTables ==
    { [ i \in 1..Len(t) |-> MdRow(t[i][1], t[i][2], t[i][3], t[i][4]) ]
      : t \in SeqsOf({"ALPHA", "BETA"} \X {1, 2} \X {"Publikasi", "Penelitian"}
                     \X MdScores, 0, MaxMd) }

\* Ten rows of one code each, five of ALPHA and five of BETA, all of area
\* "Publikasi": compared, the scores 5 (codes 3, 7) and 1 (codes 5, 10) tie
\* in |diff_abs|.
MdBase10 ==
    << MdRow("ALPHA", 1, "Publikasi", << 9, 1, 2 >>),
       MdRow("ALPHA", 2, "Publikasi", << 7, 2, 4 >>),
       MdRow("ALPHA", 3, "Publikasi", << 5, 3, 10 >>),
       MdRow("ALPHA", 4, "Publikasi", << 3, 4, 6 >>),
       MdRow("ALPHA", 5, "Publikasi", << 1, 5, 8 >>),
       MdRow("BETA", 6, "Publikasi", << 8, 1, 3 >>),
       MdRow("BETA", 7, "Publikasi", << 5, 2, 5 >>),
       MdRow("BETA", 8, "Publikasi", << 4, 3, 7 >>),
       MdRow("BETA", 9, "Publikasi", << 2, 4, 9 >>),
       MdRow("BETA", 10, "Publikasi", << 1, 5, 1 >>) >>

\* metrics_details sheets whose comparison has more rows than show_n can
\* show: the ten rows and 1 .. MaxMdTail rows of further codes (11, 12, ..),
\* each of either affiliation and area, with scores 0 or 1.
MdTopTables ==
    { MdBase10 \o [ i \in 1..Len(t) |->
                       MdRow(t[i][1], Len(MdBase10) + i, t[i][2], t[i][3]) ]
      : t \in SeqsOf({"ALPHA", "BETA"} \X {"Publikasi", "Penelitian"}
                     \X { << 0, 0, 0 >>, << 1, 1, 1 >> }, 1, MaxMdTail) }

\* A workbook whose only sheet has another name than "metrics_details".
MdFixed ==
    << [ name |-> "Sheet1",
         rows |-> << MdRow("ALPHA", 1, "Publikasi", << 5, 3, 10 >>),
                     MdRow("BETA", 1, "Penelitian", << 3, 5, 20 >>),
                     MdRow("BETA", 2, "Publikasi", << 0, 0, 0 >>) >> ] >>

\* Most uploads of another workbook in a session.
MaxUploads == 1

\* The workbooks a user may upload in place of the first ones.
OtherClusterFiles ==
    { [ afiliasi |-> << AfRow("Delta", 80) >>,
        detail_kode |-> << DetailRow("Delta", 1, "Score in Research", 1, 10, 10) >> ] }

OtherMetricsFiles ==
    { << [ name |-> "metrics_details",
           rows |-> << MdRow("DELTA", 1, "Publikasi", << 5, 3, 10 >>) >> ] >> }

(***************************************************************************)
(* The widgets                                                             *)
(***************************************************************************)

TopKValues == { 1, 2, DefaultTopK }

SimSelections == { {}, {"Publication"}, {"Publication", "HKI"} }

DeltaValues == { 0, 2, DeltaMax }

MetricCols ==
    { "sinta_v3_overall_total", "sinta_v3_3yr_total", "sinta_v3_overall_value" }

CatFilters == { {}, {"Publikasi"} }

ShowNValues == { ShowNMin }

\* sorted(df_af["nama_afiliasi"].unique()), the options of the select boxes
Affiliations == { df_af[i].nama_afiliasi : i \in DOMAIN df_af }

CatNone == [ status |-> "none", df_cat |-> << >> ]

MdNone ==
    [ status |-> "none", total_overall |-> 0, total_3yr |-> 0,
      recent_ratio |-> NaN, df_md_aff |-> << >>,
      top_overall |-> << >>, recent_top |-> << >> ]

SimNone == [ status |-> "none", df_sim |-> << >>, df_cat_sim |-> << >> ]

CmpNone ==
    [ status |-> "none", returned |-> << >>, df_comp |-> << >>,
      summary |-> Summary(<< >>) ]

CmpDefault ==
    [ aff_a |-> "", aff_b |-> "", metric_col |-> "sinta_v3_overall_total",
      cat_filter |-> {}, show_n |-> 30 ]

(***************************************************************************)
(* The state machine                                                       *)
(***************************************************************************)

\* Before main has run: nothing loaded (main: df_af = ... = None), the
\* widgets at their defaults.
InitWith(cf, mf) ==
    /\ cluster_file = cf
    /\ metrics_file = mf
    /\ pc = "start"
    /\ df_af = << >>
    /\ df_detail = << >>
    /\ cat_pivot = Unstack(<< >>, 0)
    /\ top10_threshold = NaN
    /\ df_md = << >>
    /\ cluster_cache = << >>
    /\ metrics_cache = << >>
    /\ cluster_parsed = << >>
    /\ metrics_parsed = << >>
    /\ served = [ cluster |-> "none", metrics |-> "none" ]
    /\ selected_affiliation = ""
    /\ cat_out = CatNone
    /\ md_out = MdNone
    /\ top_k = DefaultTopK
    /\ df_high = << >>
    /\ sim_categories = {"Publication", "HKI"}
    /\ delta_value = 2
    /\ sim_out = SimNone
    /\ cmp_in = CmpDefault
    /\ cmp_out = CmpNone

\* The small afiliasi sheets and the one of nine rows, the longest without
\* a Top 10 threshold.
InitRank ==
    \E af \in AfTables \cup { AfBase9 } :
        InitWith([ afiliasi |-> af, detail_kode |-> DetailFixed ], MdFixed)

InitTop10 ==
    \E af \in Top10Tables :
        InitWith([ afiliasi |-> af, detail_kode |-> DetailFixed ], MdFixed)

InitDetail ==
    \E d \in DetailTables :
        InitWith([ afiliasi |-> AfOne, detail_kode |-> d ], MdFixed)

InitCompare ==
    \E m \in MdTables :
        InitWith([ afiliasi |-> AfFixed, detail_kode |-> DetailFixed ],
                 << [ name |-> "metrics_details", rows |-> m ] >>)

InitCompareTop ==
    \E m \in MdTopTables :
        InitWith([ afiliasi |-> AfFixed, detail_kode |-> DetailFixed ],
                 << [ name |-> "metrics_details", rows |-> m ] >>)

Init == InitRank \/ InitTop10 \/ InitDetail \/ InitCompare \/ InitCompareTop

\* main, lines 317-355: load_cluster_data(cf) and load_metrics_detail(mf)
\* through st.cache_data: a file with an entry is not read again and the
\* stored result is handed back; any other file is read, and the result
\* stored.
LoadData(cf, mf) ==
    /\ IF CacheHit(cluster_cache, cf)
       THEN /\ df_af' = CacheGet(cluster_cache, cf).df_af
            /\ df_detail' = CacheGet(cluster_cache, cf).df_detail
            /\ cat_pivot' = CacheGet(cluster_cache, cf).cat_pivot
            /\ top10_threshold' = CacheGet(cluster_cache, cf).top10_threshold
            /\ UNCHANGED << cluster_cache, cluster_parsed >>
       ELSE \E r \in load_cluster_data(cf) :
            /\ df_af' = r.df_af
            /\ df_detail' = r.df_detail
            /\ cat_pivot' = r.cat_pivot
            /\ top10_threshold' = r.top10_threshold
            /\ cluster_cache' = Append(cluster_cache, [ file |-> cf, result |-> r ])
            /\ cluster_parsed' = Append(cluster_parsed, cf)
    /\ IF CacheHit(metrics_cache, mf)
       THEN /\ df_md' = CacheGet(metrics_cache, mf)
            /\ UNCHANGED << metrics_cache, metrics_parsed >>
       ELSE /\ df_md' = load_metrics_detail(mf)
            /\ metrics_cache' = Append(metrics_cache,
                                       [ file |-> mf, result |-> load_metrics_detail(mf) ])
            /\ metrics_parsed' = Append(metrics_parsed, mf)
    /\ served' = [ cluster |-> IF CacheHit(cluster_cache, cf) THEN "cached" ELSE "parsed",
                   metrics |-> IF CacheHit(metrics_cache, mf) THEN "cached" ELSE "parsed" ]

\* The first run of main: both workbooks are loaded, no tab has shown yet.
Load ==
    /\ pc = "start"
    /\ LoadData(cluster_file, metrics_file)
    /\ pc' = "ready"
    /\ UNCHANGED << cluster_file, metrics_file, selected_affiliation, cat_out,
                    md_out, top_k, df_high, sim_categories, delta_value, sim_out,
                    cmp_in, cmp_out >>

\* A run of main for tab 2: the category table of the selected affiliation.
CategoryBreakdown ==
    /\ pc = "ready"
    /\ LoadData(cluster_file, metrics_file)
    /\ \E a \in Affiliations' :
        /\ selected_affiliation' = a
        /\ cat_out' = plot_category_breakdown(cat_pivot', a)
    /\ pc' = "cat"
    /\ md_out' = MdNone
    /\ top_k' = DefaultTopK
    /\ df_high' = << >>
    /\ sim_categories' = {"Publication", "HKI"}
    /\ delta_value' = 2
    /\ sim_out' = SimNone
    /\ cmp_in' = CmpDefault
    /\ cmp_out' = CmpNone
    /\ UNCHANGED << cluster_file, metrics_file >>

\* A run of main for tab 4: the metrics detail analysis of the selected
\* affiliation.
MetricsDetail ==
    /\ pc = "ready"
    /\ LoadData(cluster_file, metrics_file)
    /\ \E a \in Affiliations' :
        \E out \in MetricsAnalysis(df_md', df_detail', Upper(a)) :
            /\ selected_affiliation' = a
            /\ md_out' = out
    /\ pc' = "md"
    /\ cat_out' = CatNone
    /\ top_k' = DefaultTopK
    /\ df_high' = << >>
    /\ sim_categories' = {"Publication", "HKI"}
    /\ delta_value' = 2
    /\ sim_out' = SimNone
    /\ cmp_in' = CmpDefault
    /\ cmp_out' = CmpNone
    /\ UNCHANGED << cluster_file, metrics_file >>

\* A run of main for tab 3: the high-leverage table of the selected
\* affiliation.
HighLeverage ==
    /\ pc = "ready"
    /\ LoadData(cluster_file, metrics_file)
    /\ \E a \in Affiliations', k \in TopKValues :
        \E r \in get_high_leverage_metrics(df_detail', a, k) :
            /\ selected_affiliation' = a
            /\ top_k' = k
            /\ df_high' = r
    /\ pc' = "high"
    /\ cat_out' = CatNone
    /\ md_out' = MdNone
    /\ sim_categories' = {"Publication", "HKI"}
    /\ delta_value' = 2
    /\ sim_out' = SimNone
    /\ cmp_in' = CmpDefault
    /\ cmp_out' = CmpNone
    /\ UNCHANGED << cluster_file, metrics_file >>

\* A run of main for tab 3 after a click on "Hitung Simulasi".
Simulate ==
    /\ pc = "ready"
    /\ LoadData(cluster_file, metrics_file)
    /\ \E a \in Affiliations', cats \in SimSelections, d \in DeltaValues :
        /\ selected_affiliation' = a
        /\ sim_categories' = cats
        /\ delta_value' = d
        /\ sim_out' = Simulation(df_detail', cat_pivot', a, cats, d)
    /\ pc' = "sim"
    /\ cat_out' = CatNone
    /\ md_out' = MdNone
    /\ top_k' = DefaultTopK
    /\ df_high' = << >>
    /\ cmp_in' = CmpDefault
    /\ cmp_out' = CmpNone
    /\ UNCHANGED << cluster_file, metrics_file >>

\* A run of main for tab 5 after a click on "Bandingkan".
Compare ==
    /\ pc = "ready"
    /\ LoadData(cluster_file, metrics_file)
    /\ \E a \in Affiliations', b \in Affiliations', m \in MetricCols,
          f \in CatFilters, n \in ShowNValues :
        LET w == [ aff_a |-> a, aff_b |-> b, metric_col |-> m,
                   cat_filter |-> f, show_n |-> n ]
        IN \E out \in Comparison(df_md', w) :
            /\ cmp_in' = w
            /\ cmp_out' = out
    /\ pc' = "cmp"
    /\ selected_affiliation' = ""
    /\ cat_out' = CatNone
    /\ md_out' = MdNone
    /\ top_k' = DefaultTopK
    /\ df_high' = << >>
    /\ sim_categories' = {"Publication", "HKI"}
    /\ delta_value' = 2
    /\ sim_out' = SimNone
    /\ UNCHANGED << cluster_file, metrics_file >>

\* The next interaction: Streamlit runs main again from the top with the
\* same files; the loaders are called again, and nothing a tab computed in
\* the run before survives.
Rerun ==
    /\ pc \in {"cat", "high", "sim", "md", "cmp"}
    /\ LoadData(cluster_file, metrics_file)
    /\ pc' = "ready"
    /\ selected_affiliation' = ""
    /\ cat_out' = CatNone
    /\ md_out' = MdNone
    /\ top_k' = DefaultTopK
    /\ df_high' = << >>
    /\ sim_categories' = {"Publication", "HKI"}
    /\ delta_value' = 2
    /\ sim_out' = SimNone
    /\ cmp_in' = CmpDefault
    /\ cmp_out' = CmpNone
    /\ UNCHANGED << cluster_file, metrics_file >>

\* The workbooks read so far, less the two the session began with.
Uploads == Len(cluster_parsed) + Len(metrics_parsed) - 2

\* The user uploads another cluster workbook, one not loaded before:
\* main runs again with it.
UploadCluster ==
    /\ pc = "ready"
    /\ Uploads < MaxUploads
    /\ \E f \in OtherClusterFiles \ Range(cluster_parsed) :
        /\ cluster_file' = f
        /\ LoadData(f, metrics_file)
    /\ pc' = "ready"
    /\ UNCHANGED << metrics_file, selected_affiliation, cat_out, md_out, top_k,
                    df_high, sim_categories, delta_value, sim_out, cmp_in, cmp_out >>

\* The user uploads another metrics workbook, one not loaded before.
UploadMetrics ==
    /\ pc = "ready"
    /\ Uploads < MaxUploads
    /\ \E f \in OtherMetricsFiles \ Range(metrics_parsed) :
        /\ metrics_file' = f
        /\ LoadData(cluster_file, f)
    /\ pc' = "ready"
    /\ UNCHANGED << cluster_file, selected_affiliation, cat_out, md_out, top_k,
                    df_high, sim_categories, delta_value, sim_out, cmp_in, cmp_out >>

Next ==
    \/ Load
    \/ CategoryBreakdown
    \/ HighLeverage
    \/ Simulate
    \/ MetricsDetail
    \/ Compare
    \/ Rerun
    \/ UploadCluster
    \/ UploadMetrics

Spec == Init /\ [][Next]_vars

SpecRank == InitRank /\ [][Next]_vars

SpecTop10 == InitTop10 /\ [][Next]_vars

SpecDetail == InitDetail /\ [][Next]_vars

SpecCompare == InitCompare /\ [][Next]_vars

SpecCompareTop == InitCompareTop /\ [][Next]_vars

(***************************************************************************)
(* Ranking (load_cluster_data)                                             *)
(***************************************************************************)

Loaded == pc # "start"

Afiliasi == cluster_file.afiliasi

UniqueNames(af) ==
    \A i, j \in DOMAIN af : af[i].nama_afiliasi = af[j].nama_afiliasi => i = j

\* C1: for an afiliasi sheet of N rows with unique names, load_cluster_data
\* returns the N rows, each with one rank_overall; the ranks are exactly
\* 1..N (none repeated, none skipped), and a row with a strictly higher
\* sinta_score_overall has a strictly smaller rank.
C1_RankBijection ==
    (Loaded /\ UniqueNames(Afiliasi)) =>
        /\ Len(df_af) = Len(Afiliasi)
        /\ \A i \in DOMAIN df_af :
            /\ df_af[i].nama_afiliasi = Afiliasi[i].nama_afiliasi
            /\ df_af[i].sinta_score_overall = Afiliasi[i].sinta_score_overall
        /\ { df_af[i].rank_overall : i \in DOMAIN df_af } = 1..Len(Afiliasi)
        /\ \A i, j \in DOMAIN df_af :
            df_af[i].sinta_score_overall > df_af[j].sinta_score_overall
                => df_af[i].rank_overall < df_af[j].rank_overall

\* Three rows of unique names were ranked, and the sheet was not in rank
\* order: its first row has a lower score than its second.
C1_Witness ==
    /\ Loaded
    /\ UniqueNames(Afiliasi)
    /\ Len(df_af) = 3
    /\ df_af[1].sinta_score_overall < df_af[2].sinta_score_overall
    /\ df_af[1].rank_overall > df_af[2].rank_overall

\* C2: of two rows with equal sinta_score_overall (names unique), the one
\* that comes earlier in the afiliasi sheet gets the smaller rank_overall.
C2_TiesKeepInputOrder ==
    (Loaded /\ UniqueNames(Afiliasi)) =>
        \A i, j \in DOMAIN df_af :
            (i < j /\ df_af[i].sinta_score_overall = df_af[j].sinta_score_overall)
                => df_af[i].rank_overall < df_af[j].rank_overall

\* C3: for an afiliasi sheet of at least 10 rows, top10_threshold is the
\* score of the row at rank 10, every row of rank <= 10 has gap_to_top10 = 0,
\* and every row of rank > 10 has gap_to_top10 = threshold - score, >= 0.
C3_GapToTop10 ==
    (Loaded /\ Len(Afiliasi) >= Top10) =>
        /\ ~IsNaN(top10_threshold)
        /\ \E i \in DOMAIN df_af : df_af[i].rank_overall = Top10
        /\ \A i \in DOMAIN df_af :
            /\ df_af[i].rank_overall = Top10
                => Val(top10_threshold) = df_af[i].sinta_score_overall
            /\ df_af[i].rank_overall <= Top10 => df_af[i].gap_to_top10 = Some(0)
            /\ df_af[i].rank_overall > Top10 =>
                /\ df_af[i].gap_to_top10
                       = Some(Val(top10_threshold) - df_af[i].sinta_score_overall)
                /\ Val(df_af[i].gap_to_top10) >= 0

\* A sheet of more than 10 rows was loaded; a row below rank 10 has a
\* positive gap, and the row at rank 10 was not the 10th row of the sheet.
C3_Witness ==
    /\ Loaded
    /\ Len(Afiliasi) > Top10
    /\ \E i \in DOMAIN df_af :
        /\ df_af[i].rank_overall > Top10
        /\ Val(df_af[i].gap_to_top10) > 0
    /\ df_af[Top10].rank_overall # Top10

(***************************************************************************)
(* Comparator (compare_universities_df)                                    *)
(***************************************************************************)

\* The rows of the two affiliations of the last comparison, and their codes.
RowsA == MdRowsOf(df_md, Upper(cmp_in.aff_a))

RowsB == MdRowsOf(df_md, Upper(cmp_in.aff_b))

CodesOf(rows) == { rows[i].code : i \in DOMAIN rows }

\* C4: the codes of the table compare_universities_df returns are the union
\* of the codes of A's rows and of B's rows, and no code is on two rows of it,
\* also when a code occurs more than once for an affiliation.
C4_OuterJoinOnCode ==
    (pc = "cmp" /\ cmp_out.status = "done") =>
        /\ CodesOf(cmp_out.returned) = CodesOf(RowsA) \cup CodesOf(RowsB)
        /\ \A i, j \in DOMAIN cmp_out.returned :
            cmp_out.returned[i].code = cmp_out.returned[j].code => i = j

\* C5: in every row compare_universities_df returns, a score of a side that
\* has no row for the code is 0 and otherwise is a score of that side for
\* the code; diff_abs = score_selected - score_compare; diff_pct is missing
\* exactly when score_compare = 0 and else is diff_abs / score_compare * 100.
C5_DiffColumns ==
    pc = "cmp" =>
        \A n \in DOMAIN cmp_out.returned :
            LET row == cmp_out.returned[n]
                a == { i \in DOMAIN RowsA : RowsA[i].code = row.code }
                b == { i \in DOMAIN RowsB : RowsB[i].code = row.code }
            IN /\ a = {} => row.score_selected = 0
               /\ b = {} => row.score_compare = 0
               /\ a # {} => \E i \in a : row.score_selected = RowsA[i][cmp_in.metric_col]
               /\ b # {} => \E i \in b : row.score_compare = RowsB[i][cmp_in.metric_col]
               /\ row.diff_abs = row.score_selected - row.score_compare
               /\ IsNaN(row.diff_pct) <=> row.score_compare = 0
               /\ row.score_compare # 0 =>
                   /\ row.diff_pct[2] # 0
                   /\ row.diff_pct[1] * row.score_compare
                          = row.diff_abs * 100 * row.diff_pct[2]

\* A comparison returned a row for a code only A has (a nonzero score, no
\* diff_pct) and a row for a code only B has (diff_pct = -100 %).
C5_Witness ==
    /\ pc = "cmp"
    /\ cmp_out.status = "done"
    /\ \E n \in DOMAIN cmp_out.returned :
        /\ cmp_out.returned[n].code \notin CodesOf(RowsB)
        /\ cmp_out.returned[n].score_selected # 0
        /\ IsNaN(cmp_out.returned[n].diff_pct)
    /\ \E n \in DOMAIN cmp_out.returned :
        /\ cmp_out.returned[n].code \notin CodesOf(RowsA)
        /\ cmp_out.returned[n].score_compare # 0
        /\ cmp_out.returned[n].diff_abs = -cmp_out.returned[n].score_compare

(***************************************************************************)
(* Category matrix (load_cluster_data)                                     *)
(***************************************************************************)

DetailKode == cluster_file.detail_kode

\* C6: cat_pivot has a row for every affiliation with a row in detail_kode
\* (also one whose rows all have unknown categories), a column for each of
\* the six categories, and 0 wherever no row of the sheet fills the cell.
C6_DensePivot ==
    Loaded =>
        /\ cat_pivot.index = { DetailKode[i].nama_afiliasi : i \in DOMAIN DetailKode }
        /\ cat_pivot.columns = Range(CATEGORY_ORDER)
        /\ \A a \in cat_pivot.index, c \in Range(CATEGORY_ORDER) :
            /\ << a, c >> \in DOMAIN cat_pivot.cell
            /\ (\A i \in DOMAIN df_detail :
                    ~(df_detail[i].nama_afiliasi = a /\ df_detail[i].category = c))
                => cat_pivot.cell[<< a, c >>] = 0

\* C7: for every affiliation of cat_pivot, the sum of its row equals the sum
\* of total over the rows of detail_kode of that affiliation whose
\* kategori_score is a key of CATEGORY_LABELS; the other rows count nowhere.
C7_RowSum ==
    Loaded =>
        \A a \in cat_pivot.index :
            SumOver([ c \in cat_pivot.columns |-> cat_pivot.cell[<< a, c >>] ],
                    cat_pivot.columns)
              = SumOver([ i \in DOMAIN DetailKode |-> DetailKode[i].total ],
                        { i \in DOMAIN DetailKode :
                            /\ DetailKode[i].nama_afiliasi = a
                            /\ DetailKode[i].kategori_score \in DOMAIN CATEGORY_LABELS })

\* An affiliation of cat_pivot has a row with a known and a row with an
\* unknown category, the latter with a nonzero total.
C7_Witness ==
    /\ Loaded
    /\ \E i, j \in DOMAIN DetailKode :
        /\ DetailKode[i].nama_afiliasi = DetailKode[j].nama_afiliasi
        /\ DetailKode[i].nama_afiliasi \in cat_pivot.index
        /\ DetailKode[i].kategori_score \in DOMAIN CATEGORY_LABELS
        /\ DetailKode[j].kategori_score \notin DOMAIN CATEGORY_LABELS
        /\ DetailKode[j].total # 0

(***************************************************************************)
(* High-leverage table (get_high_leverage_metrics)                         *)
(***************************************************************************)

\* C8: every row of the table has potential_gain = weight x (1 - value),
\* unclamped: negative for value > 1 and weight > 0; weight 2, value 0.3
\* gives 1.4.
C8_PotentialGain ==
    pc = "high" =>
        \A n \in DOMAIN df_high :
            /\ df_high[n].potential_gain
                   = df_high[n].weight * One - df_high[n].weight * df_high[n].value
            /\ (df_high[n].value > One /\ df_high[n].weight > 0)
                   => df_high[n].potential_gain < 0
            /\ (df_high[n].weight = 2 /\ 10 * df_high[n].value = 3 * One)
                   => 10 * df_high[n].potential_gain = 14 * One

\* The table holds a row with value > 1 (negative gain) and the row
\* weight 2, value 0.3.
C8_Witness ==
    /\ pc = "high"
    /\ \E n \in DOMAIN df_high :
        df_high[n].value > One /\ df_high[n].weight > 0 /\ df_high[n].potential_gain < 0
    /\ \E n \in DOMAIN df_high :
        df_high[n].weight = 2 /\ 10 * df_high[n].value = 3 * One

\* The positions in df_detail of the rows of the selected affiliation.
Selected == { i \in DOMAIN df_detail : df_detail[i].nama_afiliasi = selected_affiliation }

Gain(i) == df_detail[i].weight * One - df_detail[i].weight * df_detail[i].value

\* The place of row i among the selected rows by descending gain, rows of
\* equal gain in input order.
StablePlace(i) ==
    1 + Cardinality({ j \in Selected :
                        Gain(j) > Gain(i) \/ (Gain(j) = Gain(i) /\ j < i) })

\* C9: the table is the first min(top_k, n) of the affiliation's n rows by
\* descending potential_gain, rows of equal gain in input order; it holds
\* no row of another affiliation and is empty when the affiliation has none.
C9_TopKStable ==
    pc = "high" =>
        /\ Len(df_high) = Min(top_k, Cardinality(Selected))
        /\ \A n \in DOMAIN df_high :
            /\ df_high[n].nama_afiliasi = selected_affiliation
            /\ \E i \in Selected :
                StablePlace(i) = n /\ df_high[n].kode = df_detail[i].kode

(***************************************************************************)
(* Simulation (main)                                                       *)
(***************************************************************************)

\* C10: after a simulation, a row whose category is one of the selected
\* ones has value_sim = min(1, value + delta_value), with no lower clamp;
\* every other row (category not selected, or unknown) has value_sim = value.
\* The rows are those of the selected affiliation, in order.
C10_ValueSim ==
    (pc = "sim" /\ sim_out.status = "done") =>
        /\ Len(sim_out.df_sim) = Cardinality(Selected)
        /\ \A n \in DOMAIN sim_out.df_sim :
            LET row == sim_out.df_sim[n]
                src == df_detail[CHOOSE i \in Selected :
                           Cardinality({ j \in Selected : j <= i }) = n]
                picked == /\ src.kategori_score \in DOMAIN CATEGORY_LABELS
                          /\ CATEGORY_LABELS[src.kategori_score] \in sim_categories
            IN /\ row.value = src.value
               /\ row.kode = src.kode
               /\ (picked /\ src.value + delta_value > One) => row.value_sim = One
               /\ (picked /\ src.value + delta_value <= One)
                      => row.value_sim = src.value + delta_value
               /\ ~picked => row.value_sim = src.value

\* A simulation with a positive delta clipped a selected row that was below
\* 1, left a selected row below 0, or left an unknown-category row alone.
C10_Witness ==
    /\ pc = "sim"
    /\ sim_out.status = "done"
    /\ delta_value > 0
    /\ \E n \in DOMAIN sim_out.df_sim :
        /\ sim_out.df_sim[n].category \in sim_categories
        /\ sim_out.df_sim[n].value < One
        /\ sim_out.df_sim[n].value_sim = One
        /\ sim_out.df_sim[n].value + delta_value > One
    /\ \E n \in DOMAIN sim_out.df_sim :
        /\ sim_out.df_sim[n].category = NaNLabel
        /\ sim_out.df_sim[n].value_sim = sim_out.df_sim[n].value

\* The categories (known labels) of the rows of the selected affiliation.
SelectedCategories ==
    { df_detail[i].category : i \in Selected } \ { NaNLabel }

\* C11: after a simulation, every category of the affiliation that is not
\* among the selected ones has a row in the result, with simulated_total =
\* original_total and change = 0, whatever the sheet gives as total.
C11_UnselectedUnchanged ==
    (pc = "sim" /\ sim_out.status = "done") =>
        \A c \in SelectedCategories \ sim_categories :
            \E n \in DOMAIN sim_out.df_cat_sim :
                /\ sim_out.df_cat_sim[n].category = c
                /\ sim_out.df_cat_sim[n].simulated_total
                       = sim_out.df_cat_sim[n].original_total
                /\ sim_out.df_cat_sim[n].change = 0

\* C12 as claimed: a click with no category selected gives a result with a
\* row for each category of the affiliation, every row with change = 0.
C12_EmptySelectionZeroChange ==
    (pc = "sim" /\ sim_categories = {} /\ selected_affiliation \in cat_pivot.index) =>
        /\ \A c \in SelectedCategories :
            \E n \in DOMAIN sim_out.df_cat_sim : sim_out.df_cat_sim[n].category = c
        /\ \A n \in DOMAIN sim_out.df_cat_sim : sim_out.df_cat_sim[n].change = 0

\* C12, amended: a click with no category selected is answered by the
\* warning and computes nothing: no simulated row, no row per category.
C12_EmptySelectionWarns ==
    (pc = "sim" /\ sim_categories = {} /\ selected_affiliation \in cat_pivot.index) =>
        /\ sim_out.status = "warning"
        /\ sim_out.df_sim = << >>
        /\ sim_out.df_cat_sim = << >>

\* The button was clicked with the selection emptied, for an affiliation
\* that has rows of a known category.
C12_Witness ==
    /\ pc = "sim"
    /\ sim_categories = {}
    /\ selected_affiliation \in cat_pivot.index
    /\ SelectedCategories # {}
    /\ sim_out.status = "warning"

(***************************************************************************)
(* Comparison (main, tab 5)                                                *)
(***************************************************************************)

\* The rows compare_universities_df returned that pass the category filter.
Filtered ==
    IF cmp_in.cat_filter # {}
    THEN SelectSeq(cmp_out.returned, LAMBDA r : r.category \in cmp_in.cat_filter)
    ELSE cmp_out.returned

\* C13: the three counts of the summary are those of the whole filtered set
\* (before head(show_n)): they sum to its size and are the numbers of its
\* rows with diff_abs > 0, < 0 and = 0, whatever show_n is.
C13_SummaryBeforeTruncation ==
    (pc = "cmp" /\ cmp_out.status = "done") =>
        /\ cmp_out.summary.better + cmp_out.summary.worse + cmp_out.summary.equal
               = Len(Filtered)
        /\ cmp_out.summary.better
               = Cardinality({ i \in DOMAIN Filtered : Filtered[i].diff_abs > 0 })
        /\ cmp_out.summary.worse
               = Cardinality({ i \in DOMAIN Filtered : Filtered[i].diff_abs < 0 })
        /\ cmp_out.summary.equal
               = Cardinality({ i \in DOMAIN Filtered : Filtered[i].diff_abs = 0 })

\* The place of row i of the filtered set by descending |diff_abs|, rows of
\* equal |diff_abs| by ascending code.
PlaceByDiff(i) ==
    1 + Cardinality({ j \in DOMAIN Filtered :
                        \/ Abs(Filtered[j].diff_abs) > Abs(Filtered[i].diff_abs)
                        \/ /\ Abs(Filtered[j].diff_abs) = Abs(Filtered[i].diff_abs)
                           /\ Filtered[j].code < Filtered[i].code })

\* C14: the rows shown are the first min(show_n, n) of the n filtered rows
\* by descending |diff_abs|, rows of equal |diff_abs| by ascending code: row
\* k of the table is the one row whose place is k.
C14_TopNByDiffThenCode ==
    (pc = "cmp" /\ cmp_out.status = "done") =>
        /\ Len(cmp_out.df_comp) = Min(cmp_in.show_n, Len(Filtered))
        /\ \A k \in DOMAIN cmp_out.df_comp :
            \E i \in DOMAIN Filtered :
                PlaceByDiff(i) = k /\ cmp_out.df_comp[k] = Filtered[i]

\* C16: the comparison returns without error, also when B has a code on
\* more than one row, and every row of it has A's name and A's area for its
\* code when A has the code, else B's name and B's area.
C16_NameCategoryResolution ==
    pc = "cmp" =>
        /\ cmp_out.status = "done"
        /\ \A n \in DOMAIN cmp_out.returned :
            LET row == cmp_out.returned[n]
                a == { i \in DOMAIN RowsA : RowsA[i].code = row.code }
                b == { i \in DOMAIN RowsB : RowsB[i].code = row.code }
            IN /\ a # {} => \E i \in a : /\ row.name = RowsA[i].name
                                         /\ row.category = RowsA[i].area
               /\ a = {} => \E i \in b : /\ row.name = RowsB[i].name
                                         /\ row.category = RowsB[i].area

(***************************************************************************)
(* Fewer than 10 affiliations (load_cluster_data)                          *)
(***************************************************************************)

\* C17: for an afiliasi sheet of fewer than 10 rows the load completes with
\* top10_threshold missing and gap_to_top10 missing on every row, and the
\* rows (names unique) still carry the ranks 1..N.
C17_FewerThanTen ==
    (Loaded /\ Len(Afiliasi) < Top10) =>
        /\ IsNaN(top10_threshold)
        /\ \A i \in DOMAIN df_af : IsNaN(df_af[i].gap_to_top10)
        /\ UniqueNames(Afiliasi) =>
            /\ Len(df_af) = Len(Afiliasi)
            /\ { df_af[i].rank_overall : i \in DOMAIN df_af } = 1..Len(Afiliasi)

\* The sheet of nine rows was loaded: nine ranks, no threshold, no gap.
C17_Witness ==
    /\ Loaded
    /\ Len(Afiliasi) = Top10 - 1
    /\ Len(df_af) = Top10 - 1
    /\ IsNaN(top10_threshold)
    /\ \E i \in DOMAIN df_af :
        df_af[i].rank_overall = Top10 - 1 /\ IsNaN(df_af[i].gap_to_top10)

(***************************************************************************)
(* Simulation: no category loses (main)                                    *)
(***************************************************************************)

\* Every row of the selected affiliation has weight >= 0, value <= 1 and
\* total = weight x value.
WellFormedRows ==
    \A i \in Selected :
        /\ df_detail[i].weight >= 0
        /\ df_detail[i].value <= One
        /\ df_detail[i].total = df_detail[i].weight * df_detail[i].value

\* The sum of weight x (1 - value) over the affiliation's rows of category c.
Headroom(c) ==
    SumOver([ i \in Selected |-> df_detail[i].weight * (One - df_detail[i].value) ],
            { i \in Selected : df_detail[i].category = c })

\* C19: after a simulation with delta_value >= 0 on rows with weight >= 0,
\* value <= 1 and total = weight x value, every category of the result has
\* change >= 0, change = 0 when delta_value = 0, and a selected category has
\* change at most the sum of weight x (1 - value) over its rows.
C19_NoCategoryDecreases ==
    (pc = "sim" /\ sim_out.status = "done" /\ delta_value >= 0 /\ WellFormedRows) =>
        \A n \in DOMAIN sim_out.df_cat_sim :
            LET row == sim_out.df_cat_sim[n]
            IN /\ row.change >= 0
               /\ delta_value = 0 => row.change = 0
               /\ row.category \in sim_categories
                      => row.change <= Headroom(row.category)

\* A simulation on such rows with a positive delta raised a selected
\* category by its whole headroom (a value was clipped at 1) and left an
\* unselected category as it was.
C19_Witness ==
    /\ pc = "sim"
    /\ sim_out.status = "done"
    /\ delta_value > 0
    /\ WellFormedRows
    /\ \E n \in DOMAIN sim_out.df_cat_sim :
        /\ sim_out.df_cat_sim[n].category \in sim_categories
        /\ sim_out.df_cat_sim[n].change > 0
        /\ sim_out.df_cat_sim[n].change = Headroom(sim_out.df_cat_sim[n].category)
    /\ \E n \in DOMAIN sim_out.df_cat_sim :
        /\ sim_out.df_cat_sim[n].category \notin sim_categories
        /\ sim_out.df_cat_sim[n].original_total > 0
        /\ sim_out.df_cat_sim[n].change = 0

(***************************************************************************)
(* Ratios with a zero denominator                                          *)
(***************************************************************************)

\* C15: every ratio is missing (NaN) when its denominator is 0, never a
\* number or an infinity: share_percent when the totals of the affiliation
\* sum to 0, diff_pct when score_compare = 0, the two recent ratios when
\* the overall total is 0, overall_share when the overall totals sum to 0;
\* and change_percent is a number exactly when original_total > 0.
C15_ZeroDenominatorUndefined ==
    /\ (pc = "cat" /\ cat_out.status = "done") =>
        \A n \in DOMAIN cat_out.df_cat :
            SumOver([ k \in DOMAIN cat_out.df_cat |-> cat_out.df_cat[k].total ],
                    DOMAIN cat_out.df_cat) = 0
                => IsNaN(cat_out.df_cat[n].share_percent)
    /\ pc = "cmp" =>
        \A n \in DOMAIN cmp_out.returned :
            cmp_out.returned[n].score_compare = 0
                => IsNaN(cmp_out.returned[n].diff_pct)
    /\ (pc = "sim" /\ sim_out.status = "done") =>
        \A n \in DOMAIN sim_out.df_cat_sim :
            LET row == sim_out.df_cat_sim[n]
            IN /\ IsNaN(row.change_percent) <=> ~(row.original_total > 0)
               /\ row.original_total > 0 => row.change_percent[2] # 0
    /\ (pc = "md" /\ md_out.status = "done") =>
        /\ md_out.total_overall = 0 => IsNaN(md_out.recent_ratio)
        /\ \A n \in DOMAIN md_out.df_md_aff :
            /\ md_out.df_md_aff[n].sinta_v3_overall_total = 0
                   => IsNaN(md_out.df_md_aff[n].recent_ratio)
            /\ md_out.total_overall = 0
                   => IsNaN(md_out.df_md_aff[n].overall_share)

(***************************************************************************)
(* Caching of the loaders (st.cache_data)                                  *)
(***************************************************************************)

\* No element occurs twice in the sequence q.
NoRepeat(q) == \A i, j \in DOMAIN q : q[i] = q[j] => i = j

\* The tables of the current run, as load_cluster_data returns them.
Tables ==
    [ df_af |-> df_af, df_detail |-> df_detail, cat_pivot |-> cat_pivot,
      top10_threshold |-> top10_threshold ]

====
